---- MODULE Spec2Model ----
(***************************************************************************)
(* Model of package keychain (github.com/luxfi/keychain, keychain.go):     *)
(* the ledger keychain built by NewLedgerKeychain, its queries Get and     *)
(* Addresses, and the ledgerSigner handles that forward Sign / SignHash    *)
(* to the Ledger device.  The device is an external collaborator: each of  *)
(* its answers is a nondeterministic input, and every call made to it is   *)
(* recorded in the log `calls`.  Go maps are reference values: the address *)
(* set of a keychain is an object of the heap `sets`, and a set.Set value  *)
(* is a reference to such an object.                                       *)
(***************************************************************************)
EXTENDS Integers, Sequences, FiniteSets, TLC

\* ---------------------------------------------------------------- bounds
MaxLen == 2      \* longest index list handed to NewLedgerKeychain
MaxCalls == 2    \* most device calls explored in one behaviour

\* ------------------------------------------------------------ value sets
ShortID == {"A", "B", "C"}
Index == {0, 1}
Bytes == {"m1", "m2"}
Signatures == {"sig1", "sig2"}

NoErr == "nil"
ErrInvalidIndicesLength == "ErrInvalidIndicesLength"
ErrInvalidNumAddrsDerived == "ErrInvalidNumAddrsDerived"
DeviceErrors == {"ErrDeviceA", "ErrDeviceB"}

\* a Go slice of uint32: nil or a (possibly empty) list
NilSlice == [isNil |-> TRUE, elems |-> <<>>]
Slice(s) == [isNil |-> FALSE, elems |-> s]
GoLen(sl) == Len(sl.elems)

SeqsUpTo(S, n) == UNION {[1 .. k -> S] : k \in 0 .. n}
IndexLists == {NilSlice} \cup {Slice(s) : s \in SeqsUpTo(Index, MaxLen)}

\* what the device can answer to GetAddresses: any list, with or without error
GetAddressesAnswers ==
    [addresses : SeqsUpTo(ShortID, MaxLen + 1), err : {NoErr} \cup DeviceErrors]
NoAnswer == [addresses |-> <<>>, err |-> "none"]

\* what the device can answer to Sign / SignHash
SignAnswers ==
    [sig : Signatures, err : {NoErr}] \cup [sig : {"nil"}, err : {"ErrDeviceA"}]
NoSignAnswer == [sig |-> "nil", err |-> "none"]

\* ------------------------------------------------------------ Go values
NilRef == 0
NilSigner == [isNil |-> TRUE, idx |-> 0, addr |-> "nil"]
NilKeychain == [isNil |-> TRUE, addrs |-> NilRef, addrToIdx |-> <<>>]

EmptyMap == [x \in {} |-> 0]
MapPut(m, k, v) == [x \in (DOMAIN m) \cup {k} |-> IF x = k THEN v ELSE m[x]]

VARIABLES
    pc,       \* "start", "built" (constructor returned a keychain), "failed"
    indices,  \* the caller's own index slice
    args,     \* the index list as it was when handed to NewLedgerKeychain
    answer,   \* the device's answer to GetAddresses
    err,      \* the error NewLedgerKeychain returned
    nCalls,   \* how many calls the device has received
    lastCall, \* the latest call the device received
    devOut,   \* the device's answer to the latest Sign / SignHash
    sigRet,   \* what the latest Sign / SignHash returned to the caller
    sets,     \* heap of set.Set objects
    kc,       \* the keychain returned to the caller
    held,     \* the set.Set value the caller got from Addresses()
    signer,   \* the Signer the caller got from its latest Get
    found     \* the bool the caller got from its latest Get

vars == <<pc, indices, args, answer, err, nCalls, lastCall, devOut, sigRet,
          sets, kc, held, signer, found>>

Call(op, list, data, idx) == [op |-> op, indices |-> list, data |-> data, idx |-> idx]
NoCall == Call("none", <<>>, "-", 0)

\* ------------------------------------------------- NewLedgerKeychain

\* variant: the loop stores the position (Go's 0-based i) instead of indices[i]
RECURSIVE BuildAddrToIdx_Position(_, _, _, _)
BuildAddrToIdx_Position(addresses, idxs, i, m) ==
    IF i > Len(addresses) THEN m
    ELSE BuildAddrToIdx_Position(addresses, idxs, i + 1,
                                 MapPut(m, addresses[i], i - 1))

\* variant: an address already in the map keeps its first index
RECURSIVE BuildAddrToIdx_FirstWins(_, _, _, _)
BuildAddrToIdx_FirstWins(addresses, idxs, i, m) ==
    IF i > Len(addresses) THEN m
    ELSE BuildAddrToIdx_FirstWins(addresses, idxs, i + 1,
             IF addresses[i] \in DOMAIN m THEN m
             ELSE MapPut(m, addresses[i], idxs[i]))

\* the loop of NewLedgerKeychain from position i on: addrToIdx[addr] = indices[i]
RECURSIVE BuildAddrToIdx(_, _, _, _)
BuildAddrToIdx(addresses, idxs, i, m) ==
    IF i > Len(addresses) THEN m
    ELSE BuildAddrToIdx(addresses, idxs, i + 1, MapPut(m, addresses[i], idxs[i]))

\* variant: only the last address is added to the set
BuildAddrs_OnlyLast(addresses, i, s) ==
    IF Len(addresses) = 0 THEN s ELSE s \cup {addresses[Len(addresses)]}

\* the loop of NewLedgerKeychain from position i on: addrs.Add(addr)
RECURSIVE BuildAddrs(_, _, _)
BuildAddrs(addresses, i, s) ==
    IF i > Len(addresses) THEN s
    ELSE BuildAddrs(addresses, i + 1, s \cup {addresses[i]})

\* the two ways NewLedgerKeychain returns: (nil, e) after `called` device
\* calls, or the keychain built from the device's addresses
Refused(e, called) ==
    [err |-> e, called |-> called, built |-> FALSE,
     addrToIdx |-> EmptyMap, addrs |-> {}]
Built(ind, out) ==
    [err |-> NoErr, called |-> 1, built |-> TRUE,
     addrToIdx |-> BuildAddrToIdx(out.addresses, ind.elems, 1, EmptyMap),
     addrs |-> BuildAddrs(out.addresses, 1, {})]

\* variant: the device is asked before the index list is looked at
NewLedgerKeychainResult_NoEmptyCheck(ind, out) ==
    IF out.err # NoErr THEN Refused(out.err, 1)
    ELSE IF Len(out.addresses) # GoLen(ind) THEN Refused(ErrInvalidNumAddrsDerived, 1)
    ELSE Built(ind, out)

\* variant: only an answer longer than the index list is refused
NewLedgerKeychainResult_FewerAccepted(ind, out) ==
    IF GoLen(ind) = 0 THEN Refused(ErrInvalidIndicesLength, 0)
    ELSE IF out.err # NoErr THEN Refused(out.err, 1)
    ELSE IF Len(out.addresses) > GoLen(ind) THEN Refused(ErrInvalidNumAddrsDerived, 1)
    ELSE Built(ind, out)

\* variant: the count is compared before the device's error is looked at
NewLedgerKeychainResult_CountFirst(ind, out) ==
    IF GoLen(ind) = 0 THEN Refused(ErrInvalidIndicesLength, 0)
    ELSE IF Len(out.addresses) # GoLen(ind) THEN Refused(ErrInvalidNumAddrsDerived, 1)
    ELSE IF out.err # NoErr THEN Refused(out.err, 1)
    ELSE Built(ind, out)

\* the outcome of NewLedgerKeychain(ledger, ind) when the device would answer
\* `out` to GetAddresses(ind)
NewLedgerKeychainResult(ind, out) ==
    IF GoLen(ind) = 0 THEN Refused(ErrInvalidIndicesLength, 0)
    ELSE IF out.err # NoErr THEN Refused(out.err, 1)
    ELSE IF Len(out.addresses) # GoLen(ind) THEN Refused(ErrInvalidNumAddrsDerived, 1)
    ELSE Built(ind, out)

NewLedgerKeychain ==
    /\ pc = "start"
    /\ \E ind \in IndexLists, out \in GetAddressesAnswers :
         LET r == NewLedgerKeychainResult(ind, out) IN
         /\ indices' = ind
         /\ args' = ind
         /\ answer' = IF r.called > 0 THEN out ELSE NoAnswer
         /\ nCalls' = nCalls + r.called
         /\ lastCall' = IF r.called > 0
                        THEN Call("GetAddresses", ind.elems, "-", 0)
                        ELSE lastCall
         /\ sets' = IF r.built THEN Append(sets, r.addrs) ELSE sets
         /\ kc' = IF r.built
                  THEN [isNil |-> FALSE, addrs |-> Len(sets) + 1,
                        addrToIdx |-> r.addrToIdx]
                  ELSE NilKeychain
         /\ pc' = IF r.built THEN "built" ELSE "failed"
         /\ err' = r.err
    /\ UNCHANGED <<devOut, sigRet, held, signer, found>>

\* ------------------------------------------------- ledgerKeychain

\* l.Get(addr): the (Signer, bool) pair
Get(l, addr) ==
    IF addr \notin DOMAIN l.addrToIdx
    THEN [signer |-> NilSigner, ok |-> FALSE]
    ELSE [signer |-> [isNil |-> FALSE, idx |-> l.addrToIdx[addr], addr |-> addr],
          ok |-> TRUE]

\* l.Addresses(): the set.Set value, a reference to the keychain's own set
Addresses(l) == l.addrs

\* variant: Get asks the device for the address before answering
CallGet_AsksDevice(addr) ==
    /\ pc = "built"
    /\ signer' = Get(kc, addr).signer
    /\ found' = Get(kc, addr).ok
    /\ nCalls' = nCalls + 1
    /\ lastCall' = Call("Address", <<>>, "-", 0)
    /\ UNCHANGED <<pc, indices, args, answer, err, devOut, sigRet, sets, kc, held>>

CallGet(addr) ==
    /\ pc = "built"
    /\ signer' = Get(kc, addr).signer
    /\ found' = Get(kc, addr).ok
    /\ UNCHANGED <<pc, indices, args, answer, err, nCalls, lastCall, devOut,
                   sigRet, sets, kc, held>>

CallAddresses ==
    /\ pc = "built"
    /\ held' = Addresses(kc)
    /\ UNCHANGED <<pc, indices, args, answer, err, nCalls, lastCall, devOut,
                   sigRet, sets, kc, signer, found>>

\* ------------------------------------------------- ledgerSigner

\* the device calls a signer makes, and what it hands back of the answer
SignHash(s, hash, out) ==
    [calls |-> <<Call("SignHash", <<>>, hash, s.idx)>>, ret |-> out]
\* variant: Sign goes through the device's SignHash entry point
Sign_ViaSignHash(s, hash, out) ==
    [calls |-> <<Call("SignHash", <<>>, hash, s.idx)>>, ret |-> out]

Sign(s, hash, out) ==
    [calls |-> <<Call("Sign", <<>>, hash, s.idx)>>, ret |-> out]
SignerAddress(s) == s.addr

\* the device receives the calls cs, the last of them answered by out
Device(cs, out) ==
    /\ nCalls' = nCalls + Len(cs)
    /\ lastCall' = IF Len(cs) > 0 THEN cs[Len(cs)] ELSE lastCall
    /\ devOut' = IF Len(cs) > 0 THEN out ELSE devOut

CallSignHash(hash) ==
    /\ ~signer.isNil
    /\ nCalls < MaxCalls
    /\ \E out \in SignAnswers :
         /\ Device(SignHash(signer, hash, out).calls, out)
         /\ sigRet' = SignHash(signer, hash, out).ret
    /\ UNCHANGED <<pc, indices, args, answer, err, sets, kc, held, signer, found>>

CallSign(hash) ==
    /\ ~signer.isNil
    /\ nCalls < MaxCalls
    /\ \E out \in SignAnswers :
         /\ Device(Sign(signer, hash, out).calls, out)
         /\ sigRet' = Sign(signer, hash, out).ret
    /\ UNCHANGED <<pc, indices, args, answer, err, sets, kc, held, signer, found>>

\* Address() hands back SignerAddress(signer); nothing is written
CallSignerAddress ==
    /\ ~signer.isNil
    /\ UNCHANGED vars

\* ------------------------------------------------- the caller

\* the caller adds to / removes from the set.Set value it holds
CallerSetAdd(a) ==
    /\ held # NilRef
    /\ sets' = [sets EXCEPT ![held] = @ \cup {a}]
    /\ UNCHANGED <<pc, indices, args, answer, err, nCalls, lastCall, devOut,
                   sigRet, kc, held, signer, found>>

CallerSetRemove(a) ==
    /\ held # NilRef
    /\ sets' = [sets EXCEPT ![held] = @ \ {a}]
    /\ UNCHANGED <<pc, indices, args, answer, err, nCalls, lastCall, devOut,
                   sigRet, kc, held, signer, found>>

\* the caller overwrites the first element of its own index slice
CallerWriteIndices(v) ==
    /\ pc # "start"
    /\ GoLen(indices) > 0
    /\ indices' = [indices EXCEPT !.elems[1] = v]
    /\ UNCHANGED <<pc, args, answer, err, nCalls, lastCall, devOut, sigRet,
                   sets, kc, held, signer, found>>

\* ------------------------------------------------- specification

Init ==
    /\ pc = "start"
    /\ indices = NilSlice
    /\ args = NilSlice
    /\ answer = NoAnswer
    /\ err = NoErr
    /\ nCalls = 0
    /\ lastCall = NoCall
    /\ devOut = NoSignAnswer
    /\ sigRet = NoSignAnswer
    /\ sets = <<>>
    /\ kc = NilKeychain
    /\ held = NilRef
    /\ signer = NilSigner
    /\ found = FALSE

Next ==
    \/ NewLedgerKeychain
    \/ \E a \in ShortID : CallGet(a)
    \/ CallAddresses
    \/ \E h \in Bytes : CallSignHash(h)
    \/ \E h \in Bytes : CallSign(h)
    \/ CallSignerAddress
    \/ \E a \in ShortID : CallerSetAdd(a)
    \/ \E a \in ShortID : CallerSetRemove(a)
    \/ \E v \in Index : CallerWriteIndices(v)

Spec == Init /\ [][Next]_vars

\* ------------------------------------------------- properties

Range(f) == {f[i] : i \in DOMAIN f}
Distinct(f) == \A i, j \in DOMAIN f : i # j => f[i] # f[j]
LastPos(f, a) == CHOOSE i \in DOMAIN f : f[i] = a /\ \A j \in DOMAIN f : f[j] = a => j <= i

\* the constructor has run and the device gave one address per index
Derived ==
    /\ pc # "start"
    /\ GoLen(args) > 0
    /\ answer.err = NoErr
    /\ Len(answer.addresses) = GoLen(args)

\* the current content of the set that Addresses() returns
AddressSet(l) == sets[Addresses(l)]

\* C1: a non-empty index list answered by one address per index, all
\* distinct, yields a keychain, and Get on each returned address finds a
\* signer with that address, bound to the input index at the same position.
C1_GetFindsEveryDerivedAddress ==
    (Derived /\ Distinct(answer.addresses)) =>
        /\ pc = "built" /\ err = NoErr /\ ~kc.isNil
        /\ \A i \in 1 .. Len(answer.addresses) :
             LET g == Get(kc, answer.addresses[i]) IN
             /\ g.ok
             /\ ~g.signer.isNil
             /\ SignerAddress(g.signer) = answer.addresses[i]
             /\ g.signer.idx = args.elems[i]

C1_Witness ==
    /\ Derived /\ Distinct(answer.addresses)
    /\ Len(answer.addresses) = 2
    /\ args.elems[1] # args.elems[2]
    /\ found
    /\ signer.addr = answer.addresses[2]
    /\ signer.idx = args.elems[2]

\* C2: an empty or nil index list is refused with ErrInvalidIndicesLength,
\* no keychain is returned and the device receives no call.
C2_EmptyIndicesRefused ==
    (pc # "start" /\ GoLen(args) = 0) =>
        /\ pc = "failed"
        /\ err = ErrInvalidIndicesLength
        /\ kc = NilKeychain
        /\ sets = <<>>
        /\ nCalls = 0
        /\ lastCall = NoCall
        /\ answer = NoAnswer

C2_Witness ==
    /\ pc = "failed"
    /\ args = Slice(<<>>)
    /\ err = ErrInvalidIndicesLength
    /\ nCalls = 0

\* C3: a device answer without error whose length differs from the number of
\* indices is refused with ErrInvalidNumAddrsDerived; the caller gets no
\* keychain, no address set and no signer.
C3_CountMismatchRefused ==
    (pc # "start" /\ GoLen(args) > 0 /\ answer.err = NoErr
       /\ Len(answer.addresses) # GoLen(args)) =>
        /\ pc = "failed"
        /\ err = ErrInvalidNumAddrsDerived
        /\ kc = NilKeychain
        /\ sets = <<>>
        /\ held = NilRef
        /\ signer = NilSigner

C3_Witness ==
    /\ pc = "failed"
    /\ err = ErrInvalidNumAddrsDerived
    /\ GoLen(args) = 2
    /\ Len(answer.addresses) = 1

\* C4: a device error from GetAddresses is returned as it is, whatever the
\* length of the list that came with it, with no keychain and no second call.
C4_DeviceErrorReturnedVerbatim ==
    (pc # "start" /\ GoLen(args) > 0 /\ answer.err \in DeviceErrors) =>
        /\ pc = "failed"
        /\ err = answer.err
        /\ kc = NilKeychain
        /\ sets = <<>>
        /\ nCalls = 1

C4_Witness ==
    /\ pc = "failed"
    /\ err = "ErrDeviceB"
    /\ answer.err = "ErrDeviceB"
    /\ GoLen(args) = 1
    /\ Len(answer.addresses) = 2

\* C5: for a constructed keychain, Get(a) finds a signer exactly when a is
\* in Addresses(); the address set equals the domain of the mapping, and a
\* miss is (nil, false).
C5_GetIffInAddresses ==
    pc = "built" =>
        /\ \A a \in ShortID : Get(kc, a).ok <=> a \in AddressSet(kc)
        /\ AddressSet(kc) = DOMAIN kc.addrToIdx
        /\ \A a \in ShortID \ Range(answer.addresses) :
             Get(kc, a) = [signer |-> NilSigner, ok |-> FALSE]

\* C6: the constructor leaves in Addresses() exactly the distinct addresses
\* the device returned: as many as the indices when they are all distinct,
\* fewer when two positions share an address.
C6_AddressesAreTheDistinctDerived ==
    [][(pc = "start" /\ pc' = "built") =>
        /\ AddressSet(kc)' = Range(answer'.addresses)
        /\ Cardinality(AddressSet(kc)') = Cardinality(Range(answer'.addresses))
        /\ Distinct(answer'.addresses) => Cardinality(AddressSet(kc)') = GoLen(args')
        /\ ~Distinct(answer'.addresses) => Cardinality(AddressSet(kc)') < GoLen(args')
      ]_vars

C6_Witness ==
    /\ pc = "built"
    /\ held = NilRef
    /\ GoLen(args) = 2
    /\ ~Distinct(answer.addresses)
    /\ Cardinality(AddressSet(kc)) = 1

\* C7: Sign(m) is one call of the device's Sign with m and the signer's
\* index, SignHash(h) one call of the device's SignHash with h and that
\* index, and the caller gets the device's answer unchanged.
C7_SignRoutesIndexToDevice ==
    [][/\ \A m \in Bytes : CallSign(m) =>
            /\ nCalls' = nCalls + 1
            /\ lastCall' = Call("Sign", <<>>, m, signer.idx)
            /\ sigRet' = devOut'
       /\ \A h \in Bytes : CallSignHash(h) =>
            /\ nCalls' = nCalls + 1
            /\ lastCall' = Call("SignHash", <<>>, h, signer.idx)
            /\ sigRet' = devOut'
      ]_vars

C7_Witness ==
    /\ nCalls = 2
    /\ lastCall = Call("SignHash", <<>>, "m2", 1)
    /\ signer.idx = 1
    /\ sigRet = [sig |-> "nil", err |-> "ErrDeviceA"]
    /\ devOut = sigRet

\* C8: after construction nothing the caller does changes what Addresses()
\* and Get report, and the address set stays the domain of the mapping.
C8_ImmutableAfterConstruction ==
    [][pc = "built" =>
        /\ AddressSet(kc)' = AddressSet(kc)
        /\ \A a \in ShortID : Get(kc, a)' = Get(kc, a)
        /\ AddressSet(kc)' = DOMAIN kc'.addrToIdx
      ]_vars

\* C9: Get, Addresses and Address call no device and leave the keychain's
\* set and mapping alone; a construction that succeeds or fails on the count
\* makes one device call, GetAddresses with the caller's index list.
QueryFrame ==
    /\ UNCHANGED <<nCalls, lastCall, devOut, kc>>
    /\ AddressSet(kc)' = AddressSet(kc)

C9_QueriesArePure ==
    [][/\ \A a \in ShortID : CallGet(a) => QueryFrame
       /\ CallAddresses => QueryFrame
       /\ CallSignerAddress => QueryFrame
       /\ (pc = "start" /\ err' \in {NoErr, ErrInvalidNumAddrsDerived}) =>
            /\ nCalls' = nCalls + 1
            /\ lastCall' = Call("GetAddresses", args'.elems, "-", 0)
            /\ args' = indices'
      ]_vars

C9_Witness ==
    /\ pc = "built"
    /\ nCalls = 1
    /\ lastCall = Call("GetAddresses", args.elems, "-", 0)
    /\ found
    /\ held = Addresses(kc)
    /\ AddressSet(kc) = Range(answer.addresses)

\* C10: when the device returns one address for several positions the
\* keychain is still built, Get on that address gives the index of the last
\* such position, and only that index reaches the device through a signer.
LastIndex(a) == args.elems[LastPos(answer.addresses, a)]

C10_LastIndexWins ==
    Derived =>
        /\ pc = "built"
        /\ \A a \in Range(answer.addresses) :
             Get(kc, a).ok /\ Get(kc, a).signer.idx = LastIndex(a)
        /\ ~signer.isNil => signer.idx = LastIndex(signer.addr)
        /\ lastCall.op \in {"Sign", "SignHash"} =>
             lastCall.idx \in {LastIndex(a) : a \in Range(answer.addresses)}

C10_Witness ==
    /\ pc = "built"
    /\ answer.addresses = <<"A", "A">>
    /\ args.elems = <<0, 1>>
    /\ signer.addr = "A"
    /\ signer.idx = 1
    /\ lastCall = Call("Sign", <<>>, "m1", 1)

====
